---------------------------- MODULE Spec2Model ----------------------------
(***************************************************************************)
(* ChainMonitor backend: the Monitor loop (backend/monitor.py), the whale  *)
(* / exchange / liquidity analytics (backend/whale_cex.py) and the REST    *)
(* API (backend/api_server.py).                                            *)
(*                                                                         *)
(* Python integers are unbounded and Python floats are IEEE-754 doubles.   *)
(* Integers that may be large are kept as sequences of 15-bit limbs (least *)
(* significant first); doubles are kept as sign, integer mantissa and      *)
(* binary exponent, and every float operation rounds its exact result to   *)
(* 53 significant bits, ties to even, as the hardware does.                *)
(***************************************************************************)
EXTENDS Integers, Sequences, FiniteSets, TLC

(***************************************************************************)
(* Unbounded naturals: sequences of limbs, least significant first, no     *)
(* leading zero limb; the empty sequence is 0.                             *)
(***************************************************************************)
Base == 2^15

RECURSIVE BigNorm(_)
BigNorm(s) ==
    IF s = <<>> THEN s
    ELSE IF s[Len(s)] = 0 THEN BigNorm(SubSeq(s, 1, Len(s) - 1)) ELSE s

RECURSIVE BigFromNat(_)
BigFromNat(n) ==
    IF n = 0 THEN <<>> ELSE <<n % Base>> \o BigFromNat(n \div Base)

BigLimb(a, i) == IF i >= 1 /\ i <= Len(a) THEN a[i] ELSE 0

RECURSIVE BigCmpFrom(_, _, _)
BigCmpFrom(a, b, i) ==
    IF i = 0 THEN 0
    ELSE IF a[i] < b[i] THEN -1
    ELSE IF a[i] > b[i] THEN 1
    ELSE BigCmpFrom(a, b, i - 1)

\* -1, 0, 1 as a < b, a = b, a > b
BigCmp(a, b) ==
    IF Len(a) < Len(b) THEN -1
    ELSE IF Len(a) > Len(b) THEN 1
    ELSE BigCmpFrom(a, b, Len(a))

RECURSIVE BigAddFrom(_, _, _, _)
BigAddFrom(a, b, i, carry) ==
    IF i > Len(a) /\ i > Len(b)
    THEN (IF carry = 0 THEN <<>> ELSE <<carry>>)
    ELSE LET s == BigLimb(a, i) + BigLimb(b, i) + carry
         IN  <<s % Base>> \o BigAddFrom(a, b, i + 1, s \div Base)

BigAdd(a, b) == BigAddFrom(a, b, 1, 0)

RECURSIVE BigSubFrom(_, _, _, _)
BigSubFrom(a, b, i, borrow) ==
    IF i > Len(a) THEN <<>>
    ELSE LET d == a[i] - BigLimb(b, i) - borrow
         IN  IF d < 0 THEN <<d + Base>> \o BigSubFrom(a, b, i + 1, 1)
                      ELSE <<d>> \o BigSubFrom(a, b, i + 1, 0)

\* a - b for a >= b
BigSub(a, b) == BigNorm(BigSubFrom(a, b, 1, 0))

RECURSIVE BigMulSmallFrom(_, _, _, _)
BigMulSmallFrom(a, k, i, carry) ==
    IF i > Len(a) THEN (IF carry = 0 THEN <<>> ELSE <<carry>>)
    ELSE LET p == a[i] * k + carry
         IN  <<p % Base>> \o BigMulSmallFrom(a, k, i + 1, p \div Base)

\* a * k for 0 <= k < Base
BigMulSmall(a, k) == IF k = 0 THEN <<>> ELSE BigMulSmallFrom(a, k, 1, 0)

BigShiftLimbs(a, n) == IF a = <<>> THEN a ELSE [i \in 1..n |-> 0] \o a

RECURSIVE BigMulFrom(_, _, _)
BigMulFrom(a, b, i) ==
    IF i > Len(b) THEN <<>>
    ELSE BigAdd(BigShiftLimbs(BigMulSmall(a, b[i]), i - 1), BigMulFrom(a, b, i + 1))

BigMul(a, b) == BigMulFrom(a, b, 1)

RECURSIVE BigPow(_, _)
BigPow(a, n) == IF n = 0 THEN <<1>> ELSE BigMul(a, BigPow(a, n - 1))

RECURSIVE BitLenSmall(_)
BitLenSmall(n) == IF n = 0 THEN 0 ELSE 1 + BitLenSmall(n \div 2)

LimbBits == BitLenSmall(Base) - 1

BigBitLen(a) ==
    IF a = <<>> THEN 0 ELSE LimbBits * (Len(a) - 1) + BitLenSmall(a[Len(a)])

\* bit i of a, bit 0 the least significant
BigBit(a, i) == (BigLimb(a, (i \div LimbBits) + 1) \div 2^(i % LimbBits)) % 2

BigShl(a, k) == BigShiftLimbs(BigMulSmall(a, 2^(k % LimbBits)), k \div LimbBits)

BigShr(a, k) ==
    LET q == k \div LimbBits
        r == k % LimbBits
        d == IF q >= Len(a) THEN <<>> ELSE SubSeq(a, q + 1, Len(a))
    IN  BigNorm([i \in 1..Len(d) |->
                   (d[i] \div 2^r) + (BigLimb(d, i + 1) % 2^r) * 2^(LimbBits - r)])

\* the low k bits of a are all zero
BigLowZero(a, k) == BigShl(BigShr(a, k), k) = a

\* the largest d in lo..hi with b * d <= r, by bisection (b * lo <= r)
RECURSIVE BigQuoDigit(_, _, _, _)
BigQuoDigit(r, b, lo, hi) ==
    IF lo = hi THEN lo
    ELSE LET mid == (lo + hi + 1) \div 2
         IN  IF BigCmp(BigMulSmall(b, mid), r) <= 0
             THEN BigQuoDigit(r, b, mid, hi)
             ELSE BigQuoDigit(r, b, lo, mid - 1)

RECURSIVE BigDivStep(_, _, _, _, _)
BigDivStep(a, b, i, q, r) ==
    IF i = 0 THEN [quo |-> BigNorm(q), rem |-> r]
    ELSE LET r2 == IF r = <<>> /\ a[i] = 0 THEN <<>> ELSE <<a[i]>> \o r
             d  == BigQuoDigit(r2, b, 0, Base - 1)
             r3 == BigSub(r2, BigMulSmall(b, d))
         IN  BigDivStep(a, b, i - 1, <<d>> \o q, r3)

\* floor(a / b) and a mod b for b > 0: long division, one limb of a at a time
BigDivMod(a, b) == BigDivStep(a, b, Len(a), <<>>, <<>>)

(***************************************************************************)
(* Python floats.  A float is (-1)^sgn * man * 2^exp with man an unbounded *)
(* natural of at most MantBits bits; FloatRound is the rounding every      *)
(* arithmetic operation ends with (round to nearest, ties to even).        *)
(* Exponent overflow and subnormals are out of the range of the inputs.    *)
(***************************************************************************)
MantBits == 52 + 1

FloatRound(sgn, man, exp, sticky) ==
    LET n == BigBitLen(man)
        s == n - MantBits
        q == BigShr(man, s)
        half == BigBit(man, s - 1) = 1
        rest == sticky \/ ~BigLowZero(man, s - 1)
        up == half /\ (rest \/ BigBit(q, 0) = 1)
    IN  IF n <= MantBits
        THEN [sgn |-> sgn, man |-> man, exp |-> exp]
        ELSE [sgn |-> sgn, man |-> IF up THEN BigAdd(q, <<1>>) ELSE q, exp |-> exp + s]

\* float(n) for an int n of at most MantBits bits
FloatFromInt(n) ==
    [sgn |-> IF n < 0 THEN 1 ELSE 0,
     man |-> BigFromNat(IF n < 0 THEN -n ELSE n),
     exp |-> 0]

FloatIsZero(x) == x.man = <<>>

\* x * y
FloatMul(x, y) ==
    FloatRound((x.sgn + y.sgn) % 2, BigMul(x.man, y.man), x.exp + y.exp, FALSE)

\* x / y for y # 0: the quotient is developed to MantBits + 2 bits or more, the
\* remainder is the sticky bit
FloatDiv(x, y) ==
    LET need == MantBits + 2 + BigBitLen(y.man) - BigBitLen(x.man)
        k == IF need > 0 THEN need ELSE 0
        d == BigDivMod(BigShl(x.man, k), y.man)
    IN  IF FloatIsZero(x)
        THEN [sgn |-> (x.sgn + y.sgn) % 2, man |-> <<>>, exp |-> 0]
        ELSE FloatRound((x.sgn + y.sgn) % 2, d.quo, x.exp - y.exp - k, d.rem # <<>>)

FloatMagCmp(x, y) ==
    LET e == IF x.exp < y.exp THEN x.exp ELSE y.exp
    IN  BigCmp(BigShl(x.man, x.exp - e), BigShl(y.man, y.exp - e))

FloatSign(x) == IF FloatIsZero(x) THEN 0 ELSE IF x.sgn = 1 THEN -1 ELSE 1

\* -1, 0, 1 as x < y, x = y, x > y (exact, as Python compares floats and ints)
FloatCmp(x, y) ==
    IF FloatSign(x) # FloatSign(y)
    THEN (IF FloatSign(x) < FloatSign(y) THEN -1 ELSE 1)
    ELSE IF FloatSign(x) = 0 THEN 0
    ELSE IF FloatSign(x) = 1 THEN FloatMagCmp(x, y)
    ELSE FloatMagCmp(y, x)

FloatLe(x, y) == FloatCmp(x, y) <= 0
FloatLt(x, y) == FloatCmp(x, y) < 0

\* the literal num/den written in decimal: the double nearest to it
FloatLiteral(num, den) == FloatDiv(FloatFromInt(num), FloatFromInt(den))

(***************************************************************************)
(* State.  The module holds four machines over disjoint variables: the     *)
(* Monitor loop, the scoring and liquidity functions, the whale / exchange *)
(* analytics, and the REST API over the risk_levels table.  Each           *)
(* specification runs one machine and leaves the others at rest.           *)
(***************************************************************************)
VARIABLES
    fn,             \* scoring machine: the function under call, or "none"
    stage,          \* "call" before the function ran, "return" after
    metrics,        \* argument of compute_risk_level
    risk_level,     \* its outcome: [raised, level]
    getReserves,    \* what pair.functions.getReserves().call() answers
    liquidity,      \* value returned by estimate_pool_liquidity
    pc,             \* Monitor: the statement of monitor_loop to run next
    markets,        \* Monitor: content of markets.json
    pair_address, whales, cex_addresses,   \* Monitor: set at startup
    last_level,     \* Monitor: <<>> for None, <<l>> for the level l
    trades,         \* Monitor: swaps fetched in this cycle (their amount_in)
    pool_liquidity, \* Monitor: step 2's estimate
    level,          \* Monitor: step 4's level, <<>> before it is computed
    db_trades,      \* trades table
    risk_levels,    \* risk_levels table, in id order: [id, market_id, level, source, created_at]
    updateRisk_txs, \* levels of the updateRisk transactions broadcast
    error,          \* Monitor: the exception that ended the process, "" if none
    cycle,          \* Monitor: cycles started, and what held when the last began
    wfn,            \* analytics machine: the function under call, or "none"
    wstage,         \* "call" / "return"
    wargs,          \* its arguments: [whales, cex_addresses, pair_address, blocks_back]
    env,            \* the services it talks to: RPC node, explorer, chain history
    wresult,        \* its outcome: [raised, value]
    markets_file,   \* API: markets.json as the server finds it: [state, entries]
    now,            \* wall clock, in hours
    response        \* API: the last response: [endpoint, status, body]

scoreVars == <<fn, stage, metrics, risk_level, getReserves, liquidity>>
monitorVars == <<pc, markets, pair_address, whales, cex_addresses, last_level, trades,
                 pool_liquidity, level, db_trades, updateRisk_txs,
                 error, cycle>>
whaleVars == <<wfn, wstage, wargs, env, wresult>>
apiVars == <<markets_file, response>>
dbVars == <<risk_levels, now>>
vars == <<scoreVars, monitorVars, whaleVars, apiVars, dbVars>>

(***************************************************************************)
(* monitor.py: compute_risk_level                                          *)
(***************************************************************************)
Lit_0_01  == FloatLiteral(1, 100)
Lit_0_001 == FloatLiteral(1, 1000)
Lit_0_03  == FloatLiteral(3, 100)
Lit_0_005 == FloatLiteral(5, 1000)
Lit_0_02  == FloatLiteral(2, 100)

PoolLiquidityAsGiven(v) == v

\* metrics["pool_liquidity"] or 1
PoolLiquidityOrOne(v) == IF v = 0 THEN 1 ELSE v

\* the DEX score with the last branch (r >= 5) left out
dex_score_without_top_band(dex_volume, dex_trades, liq) ==
    LET baseline_volume == FloatMul(FloatFromInt(liq), Lit_0_01)
        r == IF FloatLt(FloatFromInt(0), baseline_volume)
             THEN FloatDiv(FloatFromInt(dex_volume), baseline_volume)
             ELSE FloatFromInt(0)
        band == IF FloatLe(FloatFromInt(1), r) /\ FloatLt(r, FloatFromInt(2)) THEN 10
                ELSE IF FloatLe(FloatFromInt(2), r) /\ FloatLt(r, FloatFromInt(5)) THEN 20
                ELSE 0
    IN  band + (IF dex_trades > 200 THEN 10 ELSE 0)

\* A. DEX activity score
dex_score(dex_volume, dex_trades, liq) ==
    LET baseline_volume == FloatMul(FloatFromInt(liq), Lit_0_01)
        r == IF FloatLt(FloatFromInt(0), baseline_volume)
             THEN FloatDiv(FloatFromInt(dex_volume), baseline_volume)
             ELSE FloatFromInt(0)
        band == IF FloatLe(FloatFromInt(1), r) /\ FloatLt(r, FloatFromInt(2)) THEN 10
                ELSE IF FloatLe(FloatFromInt(2), r) /\ FloatLt(r, FloatFromInt(5)) THEN 20
                ELSE IF FloatLe(FloatFromInt(5), r) THEN 30
                ELSE 0
    IN  band + (IF dex_trades > 200 THEN 10 ELSE 0)

\* B. whale sell-pressure score (liq # 0)
whale_score(whale_sell_total, whale_count_selling, liq) ==
    LET p == FloatDiv(FloatFromInt(whale_sell_total), FloatFromInt(liq))
        band == IF FloatLe(Lit_0_001, p) /\ FloatLt(p, Lit_0_01) THEN 10
                ELSE IF FloatLe(Lit_0_01, p) /\ FloatLt(p, Lit_0_03) THEN 20
                ELSE IF FloatLe(Lit_0_03, p) THEN 30
                ELSE 0
    IN  band + (IF whale_count_selling >= 3 THEN 5 ELSE 0)

\* C. exchange net-inflow score
cex_score(cex_net_inflow, liq) ==
    LET c  == FloatFromInt(cex_net_inflow)
        lo == FloatMul(Lit_0_005, FloatFromInt(liq))
        hi == FloatMul(Lit_0_02, FloatFromInt(liq))
    IN  IF FloatLt(FloatFromInt(0), c) /\ FloatLt(c, lo) THEN 10
        ELSE IF FloatLe(lo, c) /\ FloatLt(c, hi) THEN 20
        ELSE IF FloatLe(hi, c) THEN 30
        ELSE 0

\* score -> level
LevelOfScore(score) ==
    IF score < 20 THEN 0 ELSE IF score < 40 THEN 1 ELSE IF score < 70 THEN 2 ELSE 3

\* The outcome of compute_risk_level(metrics): the level returned, or the
\* exception raised by the division of line 113 when the divisor is 0.
compute_risk_level(m) ==
    LET liq == PoolLiquidityOrOne(m.pool_liquidity)
        score == dex_score(m.dex_volume, m.dex_trades, liq)
                 + whale_score(m.whale_sell_total, m.whale_count_selling, liq)
                 + cex_score(m.cex_net_inflow, liq)
    IN  IF liq = 0
        THEN [raised |-> "ZeroDivisionError", level |-> -1]
        ELSE [raised |-> "", level |-> LevelOfScore(score)]

(***************************************************************************)
(* whale_cex.py: estimate_pool_liquidity                                   *)
(***************************************************************************)
\* read = [ok, reserve0, reserve1]: ok is FALSE when make_web3, the contract
\* binding or the call raised
estimate_pool_liquidity(read) ==
    LET sum == read.reserve0 + read.reserve1
    IN  IF ~read.ok THEN BigPow(BigFromNat(10), 24)
        ELSE IF sum <= 0 THEN BigPow(BigFromNat(10), 24)
        ELSE BigFromNat(sum)

(***************************************************************************)
(* The scoring machine: one call of compute_risk_level or of               *)
(* estimate_pool_liquidity on an input drawn at Init.                      *)
(***************************************************************************)
MaxReserve == 6

PoolLiquidityInputs == {-100, -1, 0, 1, 100, 140, 1000}
DexVolumeInputs == {0, 1, 2, 5, 7, 10, 20, 50}
DexTradesInputs == {200, 201}
WhaleSellInputs == {0, 1, 3, 10, 30}
WhaleCountInputs == {2, 3}
CexInflowInputs == {-1, 0, 1, 2, 5, 20}

\* the two scoring vectors of the design's test list
SpecVector1 ==
    [dex_volume |-> 15000, dex_trades |-> 50, whale_sell_total |-> 5000,
     whale_count_selling |-> 1, cex_net_inflow |-> 3000, pool_liquidity |-> 1000000]
SpecVector2 ==
    [dex_volume |-> 60000, dex_trades |-> 250, whale_sell_total |-> 40000,
     whale_count_selling |-> 5, cex_net_inflow |-> 25000, pool_liquidity |-> 1000000]

MetricsInputs ==
    [dex_volume : DexVolumeInputs, dex_trades : DexTradesInputs,
     whale_sell_total : WhaleSellInputs, whale_count_selling : WhaleCountInputs,
     cex_net_inflow : CexInflowInputs, pool_liquidity : PoolLiquidityInputs]
    \cup {SpecVector1, SpecVector2}

ReservesInputs == [ok : BOOLEAN, reserve0 : 0..MaxReserve, reserve1 : 0..MaxReserve]

NoMetrics ==
    [dex_volume |-> 0, dex_trades |-> 0, whale_sell_total |-> 0,
     whale_count_selling |-> 0, cex_net_inflow |-> 0, pool_liquidity |-> 0]
NoLevel == [raised |-> "", level |-> -1]
NoReserves == [ok |-> FALSE, reserve0 |-> 0, reserve1 |-> 0]

ScoreAtRest ==
    /\ fn = "none" /\ stage = "call"
    /\ metrics = NoMetrics /\ risk_level = NoLevel
    /\ getReserves = NoReserves /\ liquidity = <<>>

ScoreInit ==
    /\ stage = "call"
    /\ risk_level = NoLevel
    /\ liquidity = <<>>
    /\ \/ fn = "compute_risk_level" /\ metrics \in MetricsInputs
          /\ getReserves = NoReserves
       \/ fn = "estimate_pool_liquidity" /\ getReserves \in ReservesInputs
          /\ metrics = NoMetrics

ComputeRiskLevel ==
    /\ fn = "compute_risk_level" /\ stage = "call"
    /\ risk_level' = compute_risk_level(metrics)
    /\ stage' = "return"
    /\ UNCHANGED <<fn, metrics, getReserves, liquidity>>
    /\ UNCHANGED <<monitorVars, whaleVars, apiVars, dbVars>>

EstimatePoolLiquidity ==
    /\ fn = "estimate_pool_liquidity" /\ stage = "call"
    /\ liquidity' = estimate_pool_liquidity(getReserves)
    /\ stage' = "return"
    /\ UNCHANGED <<fn, metrics, risk_level, getReserves>>
    /\ UNCHANGED <<monitorVars, whaleVars, apiVars, dbVars>>

ScoreNext == ComputeRiskLevel \/ EstimatePoolLiquidity

(***************************************************************************)
(* whale_cex.py: explorer helper, fetch_whale_metrics, fetch_cex_net_inflow*)
(*                                                                         *)
(* An address is [id, form]: the 20 bytes and the letter case they are     *)
(* written in.  str.lower() and Web3.to_checksum_address change the form   *)
(* only.  A transaction is [from, to, value, block]; the explorer answers  *)
(* "to" = "" for a contract creation, NoAddress here.                      *)
(***************************************************************************)
lower(a) == [a EXCEPT !.form = "lower"]
to_checksum_address(a) == [a EXCEPT !.form = "checksum"]
NoAddress == [id |-> "", form |-> "lower"]

Max(a, b) == IF a > b THEN a ELSE b

\* The explorer's account/txlist over the chain history: the transactions of
\* blocks startblock..endblock that the address sent or received.
ExplorerTxList(history, address, start_block, end_block) ==
    SelectSeq(history, LAMBDA tx :
        /\ tx.block >= start_block /\ tx.block <= end_block
        /\ (lower(tx.from) = lower(address) \/ lower(tx.to) = lower(address)))

\* _etherscan_get through _fetch_normal_txs_in_range: the "result" array, or
\* [] when the key is unset, the request raises, or status is not "1"
_fetch_normal_txs_in_range(e, address, start_block, end_block) ==
    LET a == to_checksum_address(address)
        hit == e.fault_on = "all" \/ e.fault_on = a.id
    IN  IF ~e.api_key THEN <<>>
        ELSE IF e.fault = "request_error" /\ hit THEN <<>>
        ELSE IF e.fault = "bad_status" /\ hit THEN <<>>
        ELSE ExplorerTxList(e.history, a, start_block, end_block)

\* the inner loop of fetch_whale_metrics, from transaction i on
RECURSIVE this_whale_sell(_, _, _, _)
this_whale_sell(txs, i, whale, cex_set) ==
    IF i > Len(txs) THEN 0
    ELSE (IF lower(txs[i].from) = lower(whale) /\ lower(txs[i].to) \in cex_set
          THEN txs[i].value ELSE 0)
         + this_whale_sell(txs, i + 1, whale, cex_set)

SellTargetsExchangesOnly(cex_addresses_, pair_address_) ==
    {lower(cex_addresses_[i]) : i \in 1..Len(cex_addresses_)}

\* the sell-target set of fetch_whale_metrics
SellTargets(cex_addresses_, pair_address_) ==
    {lower(cex_addresses_[i]) : i \in 1..Len(cex_addresses_)} \cup {lower(pair_address_)}

\* the outer loop of fetch_whale_metrics, from whale i on, with the running
\* totals <<whale_sell_total, whale_count_selling>>
RECURSIVE WhaleLoop(_, _, _, _, _, _, _)
WhaleLoop(e, whales_, i, cex_set, start_block, latest, acc) ==
    IF i > Len(whales_) THEN acc
    ELSE LET whale == to_checksum_address(whales_[i])
             txs == _fetch_normal_txs_in_range(e, whale, start_block, latest)
             sell == this_whale_sell(txs, 1, whale, cex_set)
             acc2 == IF sell > 0 THEN <<acc[1] + sell, acc[2] + 1>> ELSE acc
         IN  WhaleLoop(e, whales_, i + 1, cex_set, start_block, latest, acc2)

\* fetch_whale_metrics(whales, cex_addresses, pair_address, blocks_back) against
\* the services e: the pair returned, or the exception that leaves the function
fetch_whale_metrics(e, whales_, cex_addresses_, pair_address_, blocks_back) ==
    LET latest == e.block_number
        start_block == Max(0, latest - blocks_back)
    IN  IF whales_ = <<>> THEN [raised |-> "", value |-> <<0, 0>>]
        ELSE IF e.fault = "rpc_error" THEN [raised |-> "ConnectionError", value |-> <<0, 0>>]
        ELSE [raised |-> "",
              value |-> WhaleLoop(e, whales_, 1, SellTargets(cex_addresses_, pair_address_),
                                  start_block, latest, <<0, 0>>)]

\* the inner loop with the sender and recipient tests left out: whatever
\* reaches the exchange is inflow, anything else it sent is outflow
RECURSIVE CexTxLoopCountingSelfSends(_, _, _, _)
CexTxLoopCountingSelfSends(txs, i, cex, acc) ==
    IF i > Len(txs) THEN acc
    ELSE LET acc2 == IF lower(txs[i].to) = lower(cex)
                     THEN <<acc[1] + txs[i].value, acc[2]>>
                     ELSE IF lower(txs[i].from) = lower(cex)
                     THEN <<acc[1], acc[2] + txs[i].value>>
                     ELSE acc
         IN  CexTxLoopCountingSelfSends(txs, i + 1, cex, acc2)

\* the inner loop of fetch_cex_net_inflow: <<total_in, total_out>> after the
\* transactions from i on are added to acc
RECURSIVE CexTxLoop(_, _, _, _)
CexTxLoop(txs, i, cex, acc) ==
    IF i > Len(txs) THEN acc
    ELSE LET frm == lower(txs[i].from)
             to == lower(txs[i].to)
             acc2 == IF to = lower(cex) /\ frm # lower(cex)
                     THEN <<acc[1] + txs[i].value, acc[2]>>
                     ELSE IF frm = lower(cex) /\ to # lower(cex)
                     THEN <<acc[1], acc[2] + txs[i].value>>
                     ELSE acc
         IN  CexTxLoop(txs, i + 1, cex, acc2)

RECURSIVE CexLoop(_, _, _, _, _, _)
CexLoop(e, cex_addresses_, i, start_block, latest, acc) ==
    IF i > Len(cex_addresses_) THEN acc
    ELSE LET cex == to_checksum_address(cex_addresses_[i])
             txs == _fetch_normal_txs_in_range(e, cex, start_block, latest)
         IN  CexLoop(e, cex_addresses_, i + 1, start_block, latest,
                     CexTxLoop(txs, 1, cex, acc))

\* fetch_cex_net_inflow(cex_addresses, blocks_back) against the services e
fetch_cex_net_inflow(e, cex_addresses_, blocks_back) ==
    LET latest == e.block_number
        start_block == Max(0, latest - blocks_back)
        totals == CexLoop(e, cex_addresses_, 1, start_block, latest, <<0, 0>>)
    IN  IF cex_addresses_ = <<>> THEN [raised |-> "", value |-> 0]
        ELSE IF e.fault = "rpc_error" THEN [raised |-> "ConnectionError", value |-> 0]
        ELSE [raised |-> "", value |-> totals[1] - totals[2]]

(***************************************************************************)
(* The analytics machine: one call of fetch_whale_metrics or of            *)
(* fetch_cex_net_inflow, on arguments and services drawn at Init.          *)
(***************************************************************************)
MaxHistory == 2
BlocksBackDefault == 2000

Addr(id, form) == [id |-> id, form |-> form]
Pool == Addr("pool", "checksum")

\* transactions the chain history is drawn from, newest first
TxCatalogue == <<
    [from |-> Addr("whale1", "lower"), to |-> Addr("cex1", "lower"), value |-> 5, block |-> 2500],
    [from |-> Addr("whale1", "checksum"), to |-> Addr("pool", "lower"), value |-> 3, block |-> 2500],
    [from |-> Addr("whale1", "lower"), to |-> Addr("other", "lower"), value |-> 7, block |-> 2500],
    [from |-> Addr("whale1", "lower"), to |-> NoAddress, value |-> 1, block |-> 2500],
    [from |-> Addr("other", "lower"), to |-> Addr("whale1", "lower"), value |-> 11, block |-> 2500],
    [from |-> Addr("cex1", "lower"), to |-> Addr("whale2", "lower"), value |-> 2, block |-> 2500],
    [from |-> Addr("cex1", "lower"), to |-> Addr("cex1", "lower"), value |-> 4, block |-> 2500],
    [from |-> Addr("other", "lower"), to |-> Addr("cex1", "checksum"), value |-> 9, block |-> 900],
    [from |-> Addr("whale2", "lower"), to |-> Addr("cex1", "lower"), value |-> 0, block |-> 900],
    [from |-> Addr("whale2", "checksum"), to |-> Addr("cex2", "lower"), value |-> 6, block |-> 500] >>

HistoryInputs ==
    {SelectSeq(TxCatalogue, LAMBDA tx : \E i \in S : TxCatalogue[i] = tx) :
        S \in {T \in SUBSET (1..Len(TxCatalogue)) : Cardinality(T) <= MaxHistory}}

WhalesInputs ==
    {<<>>, <<Addr("whale1", "checksum")>>,
     <<Addr("whale1", "lower"), Addr("whale2", "checksum")>>,
     <<Addr("whale2", "lower"), Addr("whale1", "checksum")>>}
CexInputs ==
    {<<>>, <<Addr("cex1", "checksum")>>, <<Addr("cex1", "lower"), Addr("cex2", "checksum")>>}
HeadInputs == {1000, 3000}

\* what can go wrong with the services: nothing, ETHERSCAN_API_KEY unset, the
\* RPC node failing, the explorer request raising or answering status "0",
\* for every address or for one
FaultInputs ==
    {[api_key |-> TRUE, fault |-> "none", fault_on |-> "all"],
     [api_key |-> FALSE, fault |-> "none", fault_on |-> "all"],
     [api_key |-> TRUE, fault |-> "rpc_error", fault_on |-> "all"],
     [api_key |-> TRUE, fault |-> "request_error", fault_on |-> "all"],
     [api_key |-> TRUE, fault |-> "request_error", fault_on |-> "whale1"],
     [api_key |-> TRUE, fault |-> "bad_status", fault_on |-> "all"],
     [api_key |-> TRUE, fault |-> "bad_status", fault_on |-> "cex1"]}

EnvInputs ==
    {[api_key |-> f.api_key, fault |-> f.fault, fault_on |-> f.fault_on,
      block_number |-> h, history |-> hist] :
        f \in FaultInputs, h \in HeadInputs, hist \in HistoryInputs}

NoEnv == [api_key |-> FALSE, fault |-> "none", fault_on |-> "all",
          block_number |-> 0, history |-> <<>>]
NoArgs == [whales |-> <<>>, cex_addresses |-> <<>>, pair_address |-> NoAddress,
           blocks_back |-> 0]
NoResult == [raised |-> "", value |-> <<>>]

WhaleAtRest ==
    /\ wfn = "none" /\ wstage = "call"
    /\ wargs = NoArgs /\ env = NoEnv /\ wresult = NoResult

WhaleInit ==
    /\ wstage = "call"
    /\ wresult = NoResult
    /\ env \in EnvInputs
    /\ \/ /\ wfn = "fetch_whale_metrics"
          /\ wargs \in [whales : WhalesInputs, cex_addresses : CexInputs,
                        pair_address : {Pool}, blocks_back : {BlocksBackDefault}]
       \/ /\ wfn = "fetch_cex_net_inflow"
          /\ wargs \in [whales : {<<>>}, cex_addresses : CexInputs,
                        pair_address : {NoAddress}, blocks_back : {BlocksBackDefault}]

FetchWhaleMetrics ==
    /\ wfn = "fetch_whale_metrics" /\ wstage = "call"
    /\ wresult' = fetch_whale_metrics(env, wargs.whales, wargs.cex_addresses,
                                      wargs.pair_address, wargs.blocks_back)
    /\ wstage' = "return"
    /\ UNCHANGED <<wfn, wargs, env>>
    /\ UNCHANGED <<scoreVars, monitorVars, apiVars, dbVars>>

FetchCexNetInflow ==
    /\ wfn = "fetch_cex_net_inflow" /\ wstage = "call"
    /\ wresult' = LET r == fetch_cex_net_inflow(env, wargs.cex_addresses, wargs.blocks_back)
                  IN  [raised |-> r.raised, value |-> <<r.value>>]
    /\ wstage' = "return"
    /\ UNCHANGED <<wfn, wargs, env>>
    /\ UNCHANGED <<scoreVars, monitorVars, apiVars, dbVars>>

(***************************************************************************)
(* Shared by the Monitor and the API: market configuration entries, market *)
(* ids, the risk_levels table.  A label is the sequence of its segments    *)
(* between "_"; config.py, db.py and chain_data.py are not in the source   *)
(* tree and are modelled from the design document.                         *)
(***************************************************************************)
Label1 == <<"UNISWAP", "USDC", "WETH">>
Label2 == <<"SUSHI", "DAI", "WETH">>
LabelWhale == <<"WHALE", "1">>
LabelCex == <<"BINANCE", "HOT">>

DexEntry1 == [type |-> "dex_pool", label |-> Label1, pairAddress |-> Pool]
DexEntry2 == [type |-> "dex_pool", label |-> Label2, pairAddress |-> Addr("pool2", "checksum")]
WhaleEntry1 == [type |-> "whale", label |-> LabelWhale, address |-> Addr("whale1", "checksum")]
CexEntry1 == [type |-> "exchange", label |-> LabelCex, address |-> Addr("cex1", "checksum")]

\* Web3.keccak(text=label), and its .hex(): one value per label
calc_market_id(label) == <<"keccak256", label>>

\* db.save_risk_level: one new row, id by autoincrement, created_at the clock
save_risk_level(table, market_id, lvl, source, at) ==
    Append(table, [id |-> Len(table) + 1, market_id |-> market_id, level |-> lvl,
                   source |-> source, created_at |-> at])

(***************************************************************************)
(* monitor.py: monitor_loop                                                *)
(***************************************************************************)
MaxSwaps == 2
MaxAmount == 2

MarketsJsonInputs ==
    {<<>>, <<WhaleEntry1, CexEntry1>>, <<DexEntry1>>, <<WhaleEntry1, DexEntry1, CexEntry1>>,
     <<DexEntry2, WhaleEntry1, DexEntry1>>}

SwapsInputs ==
    UNION {[1..n -> [amount_in : 1..MaxAmount]] : n \in 0..MaxSwaps}

\* get_default_dex_market: the entries of type dex_pool, the first is taken
DexMarkets(entries) == SelectSeq(entries, LAMBDA m : m.type = "dex_pool")

AddressesOfType(entries, type) ==
    LET sel == SelectSeq(entries, LAMBDA m : m.type = type)
    IN  [i \in 1..Len(sel) |-> sel[i].address]

\* def fetch_whale_metrics(whales, cex_addresses, pair_address, blocks_back=2000,
\* network="mainnet"): the parameters a call has to bind
fetch_whale_metrics_required == {"whales", "cex_addresses", "pair_address"}
\* the keyword arguments monitor_loop passes
monitor_whale_call_keywords == {"whales", "cex_addresses", "blocks_back", "network"}

NoCycle == [n |-> 0, last_level |-> <<>>, rows |-> 0, txs |-> 0]

MonitorAtRest ==
    /\ pc = "off" /\ markets = <<>> /\ pair_address = NoAddress
    /\ whales = <<>> /\ cex_addresses = <<>> /\ last_level = <<>>
    /\ trades = <<>> /\ pool_liquidity = <<>> /\ level = <<>>
    /\ db_trades = <<>> /\ updateRisk_txs = <<>> /\ error = "" /\ cycle = NoCycle

MonitorInit ==
    /\ pc = "startup" /\ markets \in MarketsJsonInputs /\ pair_address = NoAddress
    /\ whales = <<>> /\ cex_addresses = <<>> /\ last_level = <<>>
    /\ trades = <<>> /\ pool_liquidity = <<>> /\ level = <<>>
    /\ db_trades = <<>> /\ updateRisk_txs = <<>> /\ error = "" /\ cycle = NoCycle

\* monitor_loop up to the while: configuration, addresses, last_level = None
Startup ==
    /\ pc = "startup"
    /\ IF DexMarkets(markets) = <<>>
       THEN /\ error' = "RuntimeError"
            /\ pc' = "crashed"
            /\ UNCHANGED <<pair_address, whales, cex_addresses>>
       ELSE /\ pair_address' = DexMarkets(markets)[1].pairAddress
            /\ whales' = AddressesOfType(markets, "whale")
            /\ cex_addresses' = AddressesOfType(markets, "exchange")
            /\ pc' = "fetch_swaps"
            /\ error' = ""
    /\ last_level' = <<>>
    /\ UNCHANGED <<markets, trades, pool_liquidity, level, db_trades, updateRisk_txs,
                   cycle, risk_levels, now>>
    /\ UNCHANGED <<scoreVars, whaleVars, apiVars>>

\* step 1: fetch_recent_swaps, db.save_trades
FetchSwaps ==
    /\ pc = "fetch_swaps"
    /\ \E ts \in SwapsInputs :
          /\ trades' = ts
          /\ db_trades' = db_trades \o ts
    /\ cycle' = [n |-> cycle.n + 1, last_level |-> last_level,
                 rows |-> Len(risk_levels), txs |-> Len(updateRisk_txs)]
    /\ level' = <<>>
    /\ pc' = "estimate_liquidity"
    /\ UNCHANGED <<markets, pair_address, whales, cex_addresses, last_level,
                   pool_liquidity, updateRisk_txs, error, risk_levels, now>>
    /\ UNCHANGED <<scoreVars, whaleVars, apiVars>>

\* step 2: estimate_pool_liquidity
EstimateLiquidity ==
    /\ pc = "estimate_liquidity"
    /\ \E read \in ReservesInputs : pool_liquidity' = estimate_pool_liquidity(read)
    /\ pc' = "whale_metrics"
    /\ UNCHANGED <<markets, pair_address, whales, cex_addresses, last_level, trades,
                   level, db_trades, updateRisk_txs, error, cycle, risk_levels, now>>
    /\ UNCHANGED <<scoreVars, whaleVars, apiVars>>

\* step 3: the call fetch_whale_metrics(whales=, cex_addresses=, blocks_back=,
\* network=).  A call that leaves a parameter without default unbound raises
\* TypeError before the function body runs; nothing in the loop catches it.
WhaleMetricsCall ==
    /\ pc = "whale_metrics"
    /\ IF fetch_whale_metrics_required \subseteq monitor_whale_call_keywords
       THEN pc' = "cex_net_inflow" /\ error' = ""
       ELSE pc' = "crashed" /\ error' = "TypeError"
    /\ UNCHANGED <<markets, pair_address, whales, cex_addresses, last_level, trades,
                   pool_liquidity, level, db_trades, updateRisk_txs, cycle,
                   risk_levels, now>>
    /\ UNCHANGED <<scoreVars, whaleVars, apiVars>>

MonitorNext == Startup \/ FetchSwaps \/ EstimateLiquidity \/ WhaleMetricsCall

(***************************************************************************)
(* api_server.py.  Scores are floats with one decimal; they are kept in    *)
(* tenths (12.5 is 125).  created_at is the clock at the insert, one row   *)
(* per tick, so ORDER BY created_at is the id order.                       *)
(***************************************************************************)
AlertLimit == 50
MaxNewRows == 2

\* load_markets_config: [] when the file is not there (FileNotFoundError is
\* the one exception caught); json.load raises on a file that is no JSON
load_markets_config(file) ==
    IF file.state = "missing" THEN [raised |-> "", value |-> <<>>]
    ELSE IF file.state = "malformed" THEN [raised |-> "JSONDecodeError", value |-> <<>>]
    ELSE [raised |-> "", value |-> file.entries]

\* an exception leaving a handler: the framework answers 500
InternalServerError(endpoint, request) ==
    [endpoint |-> endpoint, request |-> request, status |-> 500, body |-> <<>>]

RowsOf(table, market_id) == SelectSeq(table, LAMBDA r : r.market_id = market_id)

ScoreWithoutOffset(lvl) == lvl * 250

\* level * 25 + 12.5, in tenths
ScoreOfLevel(lvl) == lvl * 250 + 125

\* get_latest_risk_level: <<level, score, created_at>> of the newest row of the
\* market, <<0, 0.0, None>> without one (None is <<>>)
get_latest_risk_level(table, market_id) ==
    LET rows == RowsOf(table, market_id)
        row == rows[Len(rows)]
    IN  IF rows # <<>>
        THEN [level |-> row.level, score |-> ScoreOfLevel(row.level),
              last_updated |-> <<row.created_at>>]
        ELSE [level |-> 0, score |-> 0, last_updated |-> <<>>]

\* parts[-2] if len(parts) >= 2 else "TOKEN0"; parts[-1] if len(parts) >= 1 else "TOKEN1"
Token0(label) == IF Len(label) >= 2 THEN label[Len(label) - 1] ELSE "TOKEN0"
Token1(label) == IF Len(label) >= 1 THEN label[Len(label)] ELSE "TOKEN1"

\* the Market object built by get_markets and get_market_detail
MarketObject(table, config) ==
    LET latest == get_latest_risk_level(table, calc_market_id(config.label))
    IN  [id |-> config.label, label |-> config.label, type |-> config.type,
         address |-> IF "pairAddress" \in DOMAIN config THEN config.pairAddress
                     ELSE config.address,
         token0 |-> Token0(config.label), token1 |-> Token1(config.label),
         riskLevel |-> latest.level, riskScore |-> latest.score,
         lastUpdated |-> latest.last_updated, isActive |-> TRUE]

\* GET /api/markets
get_markets(file, table) ==
    LET markets_config == load_markets_config(file)
        dex == SelectSeq(markets_config.value, LAMBDA c : c.type = "dex_pool")
    IN  IF markets_config.raised # "" THEN InternalServerError("markets", <<>>)
        ELSE [endpoint |-> "markets", request |-> <<>>, status |-> 200,
              body |-> [i \in 1..Len(dex) |-> MarketObject(table, dex[i])]]

\* GET /api/markets/{market_id}
get_market_detail(file, table, market_id) ==
    LET markets_config == load_markets_config(file)
        found == SelectSeq(markets_config.value, LAMBDA c : c.label = market_id)
    IN  IF markets_config.raised # ""
        THEN InternalServerError("market_detail", <<market_id>>)
        ELSE IF found = <<>>
        THEN [endpoint |-> "market_detail", request |-> <<market_id>>,
              status |-> 404, body |-> <<>>]
        ELSE [endpoint |-> "market_detail", request |-> <<market_id>>, status |-> 200,
              body |-> <<MarketObject(table, found[1])>>]

\* GET /api/markets/{market_id}/risk-history?hours=
get_risk_history(table, clock, market_id, hours) ==
    LET rows == SelectSeq(RowsOf(table, calc_market_id(market_id)),
                          LAMBDA r : r.created_at >= clock - hours)
    IN  IF hours < 1 \/ hours > 168
        THEN [endpoint |-> "risk_history", request |-> <<market_id, hours>>,
              status |-> 422, body |-> <<>>]
        ELSE [endpoint |-> "risk_history", request |-> <<market_id, hours>>, status |-> 200,
              body |-> [i \in 1..Len(rows) |->
                          [timestamp |-> rows[i].created_at, level |-> rows[i].level,
                           score |-> ScoreOfLevel(rows[i].level)]]]

\* the level of the row before row i, whatever its market
prev_level_any_market(table, i, j) == IF j < 1 THEN <<>> ELSE <<table[j].level>>

\* the subquery of get_alerts: the level of the row of the same market with the
\* greatest id below row i, None (<<>>) without one
RECURSIVE prev_level(_, _, _)
prev_level(table, i, j) ==
    IF j < 1 THEN <<>>
    ELSE IF table[j].market_id = table[i].market_id THEN <<table[j].level>>
    ELSE prev_level(table, i, j - 1)

\* severity_map.get(new_level, "low")
severity_map(lvl) ==
    CASE lvl = 0 -> "low" [] lvl = 1 -> "medium" [] lvl = 2 -> "high"
      [] lvl = 3 -> "critical" [] OTHER -> "low"

\* market_id[:8]
IdPrefix(market_id) == <<"first8", market_id>>

\* market_labels.get(market_id, market_id[:8])
MarketLabel(entries, market_id) ==
    LET named == SelectSeq(entries, LAMBDA c : calc_market_id(c.label) = market_id)
    IN  IF named = <<>> THEN IdPrefix(market_id) ELSE named[Len(named)].label

\* the rows the query of get_alerts returns: newest first, LIMIT 50, each with
\* its prev_level
AlertRows(table) ==
    LET n == IF Len(table) < AlertLimit THEN Len(table) ELSE AlertLimit
    IN  [k \in 1..n |->
            LET i == Len(table) + 1 - k
            IN  [row |-> table[i], prev_level |-> prev_level(table, i, i - 1)]]

LevelDiffersFromKnown(prev, new_level) == prev # <<>> /\ prev # <<new_level>>

\* if prev_level is None or prev_level != new_level
LevelChanged(prev, new_level) == prev = <<>> \/ prev # <<new_level>>

\* GET /api/alerts?severity=   ("" for no filter)
get_alerts(file, table, severity) ==
    LET markets_config == load_markets_config(file)
        entries == markets_config.value
        kept == SelectSeq(AlertRows(table), LAMBDA a :
                    /\ LevelChanged(a.prev_level, a.row.level)
                    /\ ~(severity # "" /\ severity_map(a.row.level) # severity))
    IN  IF markets_config.raised # "" THEN InternalServerError("alerts", <<severity>>)
        ELSE
        [endpoint |-> "alerts", request |-> <<severity>>, status |-> 200,
         body |-> [k \in 1..Len(kept) |->
                     [id |-> kept[k].row.id, marketId |-> kept[k].row.market_id,
                      marketLabel |-> MarketLabel(entries, kept[k].row.market_id),
                      type |-> "risk_level_change",
                      severity |-> severity_map(kept[k].row.level),
                      previousLevel |-> kept[k].prev_level,
                      newLevel |-> kept[k].row.level,
                      isResolved |-> FALSE, createdAt |-> kept[k].row.created_at]]]

\* GET /api/stats/overview.  todayTransactions counts the rows of trades
\* since midnight (all the rows trades holds here), unresolvedAlerts the
\* risk_levels rows of level >= 2 of the last 24 hours.
get_overview_stats(file, table, trades_table, clock) ==
    LET markets_config == load_markets_config(file)
        dex_markets == SelectSeq(markets_config.value, LAMBDA m : m.type = "dex_pool")
        high == {i \in DOMAIN dex_markets :
                    get_latest_risk_level(table, calc_market_id(dex_markets[i].label)).level >= 2}
        recent == SelectSeq(table, LAMBDA r : r.level >= 2 /\ r.created_at >= clock - 24)
    IN  IF markets_config.raised # "" THEN InternalServerError("overview", <<>>)
        ELSE [endpoint |-> "overview", request |-> <<>>, status |-> 200,
              body |-> <<[totalMarkets |-> Len(dex_markets),
                          highRiskMarkets |-> Cardinality(high),
                          todayTransactions |-> Len(trades_table),
                          unresolvedAlerts |-> Len(recent)]>>]

(***************************************************************************)
(* The API machine: the table the server finds, rows added by a Monitor,   *)
(* and requests answered against the table as it stands.                   *)
(***************************************************************************)
MarketIds == {calc_market_id(Label1), calc_market_id(Label2)}
\* levels a writer of the table stores: those of compute_risk_level, and one
\* outside them
LevelInputs == {0, 1, 2, 3, 7}

RECURSIVE TableOfLevels(_, _)
TableOfLevels(market_id, levels) ==
    IF levels = <<>> THEN <<>>
    ELSE save_risk_level(TableOfLevels(market_id, SubSeq(levels, 1, Len(levels) - 1)),
                         market_id, levels[Len(levels)], "multi_factor", Len(levels))

\* tables at server start: none yet; the five rows of the design's alert test;
\* a market polled AlertLimit - 1 times at one level
TableInputs ==
    {<<>>,
     TableOfLevels(calc_market_id(Label1), <<0, 0, 1, 1, 2>>),
     TableOfLevels(calc_market_id(Label1), [i \in 1..(AlertLimit - 1) |-> 1])}

MarketsFileInputs ==
    {[state |-> "missing", entries |-> <<>>],
     [state |-> "malformed", entries |-> <<>>],
     [state |-> "ok", entries |-> <<WhaleEntry1, DexEntry1, CexEntry1>>],
     [state |-> "ok", entries |-> <<DexEntry2, DexEntry1>>]}

LabelInputs == {Label1, Label2, LabelWhale, <<"UNKNOWN">>}
HoursInputs == {0, 2, 168}
SeverityInputs == {"", "low", "medium", "high", "critical"}

NoResponse == [endpoint |-> "none", request |-> <<>>, status |-> 0, body |-> <<>>]

ApiAtRest == markets_file = [state |-> "missing", entries |-> <<>>] /\ response = NoResponse
DbAtRest == risk_levels = <<>> /\ now = 1

ApiInit ==
    /\ markets_file \in MarketsFileInputs
    /\ response = NoResponse
    /\ risk_levels \in TableInputs
    /\ now = Len(risk_levels) + 1

\* db.save_risk_level called by a writer of the database.  A request is
\* answered from one reading of the table, so writes fall between requests.
SaveRiskLevel ==
    /\ response = NoResponse
    /\ \E t \in TableInputs :
          /\ Len(t) <= Len(risk_levels)
          /\ Len(risk_levels) < Len(t) + MaxNewRows
          /\ SubSeq(risk_levels, 1, Len(t)) = t
    /\ \E m \in MarketIds, l \in LevelInputs :
          risk_levels' = save_risk_level(risk_levels, m, l, "multi_factor", now)
    /\ now' = now + 1
    /\ UNCHANGED apiVars
    /\ UNCHANGED <<scoreVars, monitorVars, whaleVars>>

GetMarkets ==
    /\ response = NoResponse
    /\ response' = get_markets(markets_file, risk_levels)
    /\ UNCHANGED <<markets_file, dbVars>>
    /\ UNCHANGED <<scoreVars, monitorVars, whaleVars>>

GetMarketDetail ==
    /\ response = NoResponse
    /\ \E label \in LabelInputs :
          response' = get_market_detail(markets_file, risk_levels, label)
    /\ UNCHANGED <<markets_file, dbVars>>
    /\ UNCHANGED <<scoreVars, monitorVars, whaleVars>>

GetRiskHistory ==
    /\ response = NoResponse
    /\ \E label \in LabelInputs, hours \in HoursInputs :
          response' = get_risk_history(risk_levels, now, label, hours)
    /\ UNCHANGED <<markets_file, dbVars>>
    /\ UNCHANGED <<scoreVars, monitorVars, whaleVars>>

GetAlerts ==
    /\ response = NoResponse
    /\ \E severity \in SeverityInputs :
          response' = get_alerts(markets_file, risk_levels, severity)
    /\ UNCHANGED <<markets_file, dbVars>>
    /\ UNCHANGED <<scoreVars, monitorVars, whaleVars>>

GetOverviewStats ==
    /\ response = NoResponse
    /\ response' = get_overview_stats(markets_file, risk_levels, db_trades, now)
    /\ UNCHANGED <<markets_file, dbVars>>
    /\ UNCHANGED <<scoreVars, monitorVars, whaleVars>>

\* the handler returns and the answer leaves the server
SendResponse ==
    /\ response # NoResponse
    /\ response' = NoResponse
    /\ UNCHANGED <<markets_file, dbVars>>
    /\ UNCHANGED <<scoreVars, monitorVars, whaleVars>>

ApiNext ==
    \/ SaveRiskLevel \/ GetMarkets \/ GetMarketDetail \/ GetRiskHistory \/ GetAlerts
    \/ GetOverviewStats \/ SendResponse

(***************************************************************************)
(* Specifications                                                          *)
(***************************************************************************)
\* the Monitor process
Init == MonitorInit /\ ScoreAtRest /\ WhaleAtRest /\ ApiAtRest /\ DbAtRest
Spec == Init /\ [][MonitorNext]_vars

\* compute_risk_level and estimate_pool_liquidity on drawn inputs
InitScore == ScoreInit /\ MonitorAtRest /\ WhaleAtRest /\ ApiAtRest /\ DbAtRest
SpecScore == InitScore /\ [][ScoreNext]_vars

\* fetch_whale_metrics and fetch_cex_net_inflow on drawn inputs
WhaleNext == FetchWhaleMetrics \/ FetchCexNetInflow
InitWhale == WhaleInit /\ MonitorAtRest /\ ScoreAtRest /\ ApiAtRest /\ DbAtRest
SpecWhale == InitWhale /\ [][WhaleNext]_vars

\* the API server over a growing risk_levels table
InitApi == ApiInit /\ MonitorAtRest /\ ScoreAtRest /\ WhaleAtRest
SpecApi == InitApi /\ [][ApiNext]_vars

(***************************************************************************)
(* Properties                                                              *)
(***************************************************************************)
CycleOver == cycle.n >= 1 /\ pc \in {"sleep", "crashed"}

\* C1: a cycle sends an updateRisk transaction exactly when lastLevel is unset
\* or differs from the level it computed, and every cycle appends one row to
\* risk_levels (so of two consecutive cycles computing the same level the
\* second sends nothing and both append).  Stated of a cycle that is over and
\* that began with lastLevel unset: it has appended its row and sent its
\* transaction.
C1_RowEachCycleTxWhenLevelChanges ==
    CycleOver =>
        /\ Len(risk_levels) = cycle.rows + 1
        /\ (cycle.last_level = <<>> => Len(updateRisk_txs) = cycle.txs + 1)

\* C2: every cycle that starts, with every external service answering, runs
\* its steps in order to the end; no cycle stops between step 1 and step 5.
\* The services of the Monitor machine always answer (a failed reserve read
\* is replaced by the fallback inside estimate_pool_liquidity), so the
\* process never stops inside a cycle.
C2_NoCycleStopsBeforeStep5 == cycle.n >= 1 => (pc # "crashed" /\ error = "")

\* the reference scoring of the design, in exact arithmetic (liq >= 1)
RefDexScore(dex_volume, dex_trades, liq) ==
    (IF 100 * dex_volume >= 5 * liq THEN 30
     ELSE IF 100 * dex_volume >= 2 * liq THEN 20
     ELSE IF 100 * dex_volume >= liq THEN 10
     ELSE 0) + (IF dex_trades > 200 THEN 10 ELSE 0)

RefWhaleScore(whale_sell_total, whale_count_selling, liq) ==
    (IF 100 * whale_sell_total >= 3 * liq THEN 30
     ELSE IF 100 * whale_sell_total >= liq THEN 20
     ELSE IF 1000 * whale_sell_total >= liq THEN 10
     ELSE 0) + (IF whale_count_selling >= 3 THEN 5 ELSE 0)

RefCexScore(cex_net_inflow, liq) ==
    IF cex_net_inflow <= 0 THEN 0
    ELSE IF 1000 * cex_net_inflow < 5 * liq THEN 10
    ELSE IF 100 * cex_net_inflow < 2 * liq THEN 20
    ELSE 30

RefTotal(m) ==
    RefDexScore(m.dex_volume, m.dex_trades, m.pool_liquidity)
    + RefWhaleScore(m.whale_sell_total, m.whale_count_selling, m.pool_liquidity)
    + RefCexScore(m.cex_net_inflow, m.pool_liquidity)

RefLevel(m) ==
    LET total == RefTotal(m)
    IN  IF total < 20 THEN 0 ELSE IF total < 40 THEN 1 ELSE IF total < 70 THEN 2 ELSE 3

Returned(f) == fn = f /\ stage = "return"

\* C4: for poolLiquidity >= 1 and non-negative dexVolume, dexTrades,
\* whaleSellTotal, whaleCountSelling, compute_risk_level returns the level of
\* the reference scoring (bands of r = dexVolume / (0.01 x L), of
\* p = whaleSellTotal / L and of cexNetInflow against 0.005 L and 0.02 L;
\* total < 20 -> 0, < 40 -> 1, < 70 -> 2, else 3).
C4_LevelOfReferenceScoring ==
    (/\ Returned("compute_risk_level")
     /\ metrics.pool_liquidity >= 1
     /\ metrics.dex_volume >= 0 /\ metrics.dex_trades >= 0
     /\ metrics.whale_sell_total >= 0 /\ metrics.whale_count_selling >= 0)
    => risk_level = [raised |-> "", level |-> RefLevel(metrics)]

\* 10^24, written as (10^6)^4
TenPow24 == BigPow(BigFromNat(1000000), 4)

ExpectedLiquidity(read) ==
    IF ~read.ok \/ read.reserve0 + read.reserve1 <= 0
    THEN TenPow24 ELSE BigFromNat(read.reserve0 + read.reserve1)

EstimatorAsClaimed ==
    Returned("estimate_pool_liquidity") =>
        /\ liquidity = ExpectedLiquidity(getReserves)
        /\ BigCmp(liquidity, BigFromNat(0)) = 1

\* C5 as stated: for every integer poolLiquidity below 1, 0 and negative
\* values, compute_risk_level returns the level it returns for poolLiquidity
\* = 1 and raises no division error; estimate_pool_liquidity returns 10^24 on
\* a failed read or reserve0 + reserve1 <= 0, the sum otherwise.
C5_FlooredAtOne ==
    /\ (Returned("compute_risk_level") /\ metrics.pool_liquidity < 1) =>
          risk_level = compute_risk_level([metrics EXCEPT !.pool_liquidity = 1])
    /\ EstimatorAsClaimed

\* C5 amended: compute_risk_level raises no division error for any integer
\* poolLiquidity, and replaces poolLiquidity = 0 (only 0) by 1: for 0 it
\* returns the level it returns for poolLiquidity = 1.
\* estimate_pool_liquidity returns 10^24 on a failed read or reserve0 +
\* reserve1 <= 0, the sum otherwise: its value is always > 0.
C5_ZeroReplacedByOne ==
    /\ Returned("compute_risk_level") =>
          /\ risk_level.raised = ""
          /\ risk_level.level \in 0..3
          /\ metrics.pool_liquidity = 0 =>
                risk_level = compute_risk_level([metrics EXCEPT !.pool_liquidity = 1])
    /\ EstimatorAsClaimed

\* poolLiquidity = 0 scored as poolLiquidity = 1, at the highest level
C5_Witness ==
    /\ Returned("compute_risk_level")
    /\ metrics.pool_liquidity = 0 /\ metrics.whale_sell_total > 0
    /\ risk_level = [raised |-> "", level |-> 3]

RowIndexes(table, market_id) == {i \in DOMAIN table : table[i].market_id = market_id}
Newest(S) == CHOOSE i \in S : \A j \in S : j <= i

MarketsAnswered == response.status = 200 /\ response.endpoint \in {"markets", "market_detail"}
HistoryAnswered == response.status = 200 /\ response.endpoint = "risk_history"

\* C6 as stated: every market object of the list and detail endpoints and
\* every point of the risk-history endpoint reports score = level x 25 + 12.5,
\* whatever rows the table holds for the market, none included.
C6_ScoreIsLevelTimes25Plus12_5 ==
    /\ MarketsAnswered =>
          \A i \in DOMAIN response.body :
              response.body[i].riskScore = response.body[i].riskLevel * 250 + 125
    /\ HistoryAnswered =>
          \A i \in DOMAIN response.body :
              response.body[i].score = response.body[i].level * 250 + 125

\* C6 amended: a market object reports the level of the newest risk_levels row
\* of its market and score = level x 25 + 12.5 when the market has a row, and
\* level 0 with score 0.0 and no lastUpdated when it has none; every
\* risk-history point is a row of the market with score = level x 25 + 12.5.
C6_ScoreOfNewestRowOrZero ==
    /\ MarketsAnswered =>
          \A i \in DOMAIN response.body :
              LET o == response.body[i]
                  S == RowIndexes(risk_levels, calc_market_id(o.label))
              IN  IF S = {}
                  THEN o.riskLevel = 0 /\ o.riskScore = 0 /\ o.lastUpdated = <<>>
                  ELSE /\ o.riskLevel = risk_levels[Newest(S)].level
                       /\ o.riskScore = o.riskLevel * 250 + 125
                       /\ o.lastUpdated = <<risk_levels[Newest(S)].created_at>>
    /\ HistoryAnswered =>
          \A i \in DOMAIN response.body :
              LET point == response.body[i]
              IN  /\ point.score = point.level * 250 + 125
                  /\ \E j \in RowIndexes(risk_levels, calc_market_id(response.request[1])) :
                        /\ risk_levels[j].created_at = point.timestamp
                        /\ risk_levels[j].level = point.level

\* the market list with a market at level 2 (62.5) and a market without rows
C6_Witness ==
    /\ response.endpoint = "markets" /\ response.status = 200
    /\ \E i, j \in DOMAIN response.body :
          /\ response.body[i].riskLevel = 2 /\ response.body[i].riskScore = 625
          /\ response.body[j].lastUpdated = <<>> /\ response.body[j].riskScore = 0

RefSeverity(lvl) ==
    IF lvl = 1 THEN "medium" ELSE IF lvl = 2 THEN "high"
    ELSE IF lvl = 3 THEN "critical" ELSE "low"

\* what an alert says, for row i of the table with the previous level prev
AlertOf(table, i, prev) ==
    [id |-> table[i].id, marketId |-> table[i].market_id, previousLevel |-> prev,
     newLevel |-> table[i].level, severity |-> RefSeverity(table[i].level)]

AlertsAnswered ==
    {[id |-> a.id, marketId |-> a.marketId, previousLevel |-> a.previousLevel,
      newLevel |-> a.newLevel, severity |-> a.severity] :
        a \in {response.body[k] : k \in DOMAIN response.body}}

NewestFirst == \A k \in 1..(Len(response.body) - 1) : response.body[k].id > response.body[k + 1].id

SingleMarketTable ==
    /\ risk_levels # <<>> /\ Len(risk_levels) <= AlertLimit
    /\ \A i \in DOMAIN risk_levels : risk_levels[i].market_id = risk_levels[1].market_id

UnfilteredAlerts ==
    response.endpoint = "alerts" /\ response.status = 200 /\ response.request = <<"">>

\* C7 as stated: over the rows of a single market (at most 50), the alerts
\* endpoint without filter returns exactly one alert per position whose level
\* differs from the level of the row just before it; [0, 0, 1, 1, 2] gives
\* exactly two alerts.
C7_OneAlertPerLevelChange ==
    (UnfilteredAlerts /\ SingleMarketTable) =>
        LET changes == {i \in 2..Len(risk_levels) :
                            risk_levels[i].level # risk_levels[i - 1].level}
        IN  /\ AlertsAnswered =
                  {AlertOf(risk_levels, i, <<risk_levels[i - 1].level>>) : i \in changes}
            /\ Len(response.body) = Cardinality(changes)

\* C7 amended: over the rows of a single market (at most 50), the alerts
\* endpoint without filter returns, newest first, one alert for the first row
\* (no previous level) and one per later position whose level differs from the
\* level of the row just before it; [0, 0, 1, 1, 2] gives three alerts:
\* (none -> 0, low), (0 -> 1, medium), (1 -> 2, high).
C7_FirstRowAndEachLevelChange ==
    (UnfilteredAlerts /\ SingleMarketTable) =>
        LET changes == {i \in 2..Len(risk_levels) :
                            risk_levels[i].level # risk_levels[i - 1].level}
        IN  /\ AlertsAnswered =
                  {AlertOf(risk_levels, i, <<risk_levels[i - 1].level>>) : i \in changes}
                  \cup {AlertOf(risk_levels, 1, <<>>)}
            /\ Len(response.body) = Cardinality(changes) + 1
            /\ NewestFirst

\* the alerts of [0, 0, 1, 1, 2]
C7_Witness ==
    /\ UnfilteredAlerts
    /\ risk_levels = TableOfLevels(calc_market_id(Label1), <<0, 0, 1, 1, 2>>)
    /\ Len(response.body) = 3
    /\ response.body[3].previousLevel = <<>> /\ response.body[3].severity = "low"
    /\ response.body[2].previousLevel = <<0>> /\ response.body[2].severity = "medium"
    /\ response.body[1].previousLevel = <<1>> /\ response.body[1].severity = "high"

\* the level of the row of the same market just before row i, if there is one
PreviousOfMarket(table, i) ==
    LET before == {j \in RowIndexes(table, table[i].market_id) : j < i}
    IN  IF before = {} THEN <<>> ELSE <<table[Newest(before)].level>>

ExpectedAlerts(table, severity) ==
    {AlertOf(table, i, PreviousOfMarket(table, i)) :
        i \in {r \in DOMAIN table :
                 /\ r > Len(table) - AlertLimit
                 /\ PreviousOfMarket(table, r) # <<table[r].level>>
                 /\ (severity = "" \/ RefSeverity(table[r].level) = severity)}}

\* C8: the alerts endpoint examines the 50 most recent rows across all
\* markets and returns an alert for an examined row exactly when the row is
\* the first of its market or its level differs from that of the row of the
\* same market just before it; severity is low / medium / high / critical for
\* level 0 / 1 / 2 / 3 and low for any other level; with a severity filter
\* exactly the alerts of that severity are returned.
C8_AlertsOfLast50Rows ==
    (response.endpoint = "alerts" /\ response.status = 200) =>
        /\ AlertsAnswered = ExpectedAlerts(risk_levels, response.request[1])
        /\ Len(response.body) = Cardinality(AlertsAnswered)
        /\ NewestFirst

\* 51 rows: the first row of market 1 is no longer examined, the first row of
\* market 2 is the one alert, and the last row of market 1 repeats the level
\* of market 1 although the row before it has another
C8_Witness ==
    /\ UnfilteredAlerts
    /\ Len(risk_levels) = AlertLimit + 1
    /\ risk_levels[AlertLimit].market_id = calc_market_id(Label2)
    /\ risk_levels[AlertLimit].level = 7
    /\ risk_levels[AlertLimit + 1].market_id = calc_market_id(Label1)
    /\ Len(response.body) = 1
    /\ response.body[1].previousLevel = <<>> /\ response.body[1].severity = "low"

WhaleReturned(f) == wfn = f /\ wstage = "return"
ServicesUp == env.api_key /\ env.fault = "none"

InWindow(tx) ==
    /\ tx.block >= Max(0, env.block_number - wargs.blocks_back)
    /\ tx.block <= env.block_number

RECURSIVE SumOfValues(_)
SumOfValues(S) ==
    IF S = {} THEN 0
    ELSE LET i == CHOOSE x \in S : TRUE
         IN  env.history[i].value + SumOfValues(S \ {i})

\* the sell-target addresses, as the 20 bytes they stand for
SellTargetIds ==
    {wargs.cex_addresses[i].id : i \in DOMAIN wargs.cex_addresses} \cup {wargs.pair_address.id}

\* the sum for whale k: transactions of the window it sent to a sell target
SellOfWhale(k) ==
    SumOfValues({i \in DOMAIN env.history :
                    /\ InWindow(env.history[i])
                    /\ env.history[i].from.id = wargs.whales[k].id
                    /\ env.history[i].to.id \in SellTargetIds})

RECURSIVE SumOfWhales(_)
SumOfWhales(k) == IF k = 0 THEN 0 ELSE SellOfWhale(k) + SumOfWhales(k - 1)

DataFetchFails == ~env.api_key \/ (env.fault # "none" /\ env.fault_on = "all")

\* C10: every failure of an external data fetch inside the analytics is
\* swallowed: with the explorer key unset, the explorer request failing or
\* answering a non-success status, or the RPC node failing while the head
\* block is read, fetch_whale_metrics returns (0, 0) and fetch_cex_net_inflow
\* returns 0, and no exception reaches the caller.
C10_FetchFailuresDegradeToNeutral ==
    (wstage = "return" /\ DataFetchFails) =>
        wresult = [raised |-> "",
                   value |-> IF wfn = "fetch_whale_metrics" THEN <<0, 0>> ELSE <<0>>]

\* markets.json is not there, or is no JSON
ConfigurationUnusable == markets_file.state \in {"missing", "malformed"}

\* C11: a missing or malformed configuration file makes load_markets_config
\* return an empty sequence, never an error: the market list is then empty,
\* the overview reports totalMarkets = 0 and highRiskMarkets = 0, the alerts
\* endpoint answers, every alert labelled by the prefix of its market id, and
\* only the detail endpoint answers not-found.
C11_UnusableConfigurationDegrades ==
    (ConfigurationUnusable /\ response # NoResponse) =>
        /\ load_markets_config(markets_file) = [raised |-> "", value |-> <<>>]
        /\ response.endpoint = "markets" =>
              response.status = 200 /\ response.body = <<>>
        /\ response.endpoint = "overview" =>
              /\ response.status = 200
              /\ response.body[1].totalMarkets = 0
              /\ response.body[1].highRiskMarkets = 0
        /\ response.endpoint = "alerts" =>
              /\ response.status = 200
              /\ \A k \in DOMAIN response.body :
                    response.body[k].marketLabel = IdPrefix(response.body[k].marketId)
        /\ response.endpoint = "market_detail" => response.status = 404
        /\ response.endpoint = "risk_history" => response.status \in {200, 422}

\* inflow and outflow of exchange k over the transactions of the window
InflowOfExchange(k) ==
    SumOfValues({i \in DOMAIN env.history :
                    /\ InWindow(env.history[i])
                    /\ env.history[i].to.id = wargs.cex_addresses[k].id
                    /\ env.history[i].from.id # wargs.cex_addresses[k].id})

OutflowOfExchange(k) ==
    SumOfValues({i \in DOMAIN env.history :
                    /\ InWindow(env.history[i])
                    /\ env.history[i].from.id = wargs.cex_addresses[k].id
                    /\ env.history[i].to.id # wargs.cex_addresses[k].id})

RECURSIVE NetOfExchanges(_)
NetOfExchanges(k) ==
    IF k = 0 THEN 0
    ELSE InflowOfExchange(k) - OutflowOfExchange(k) + NetOfExchanges(k - 1)

NextAbove(S, v) == {w \in S : w > v /\ \A u \in S : u > v => u >= w}

\* the bundles that raise one signal of m to the next input value, the other
\* signals and poolLiquidity staying equal
RaisedInOneSignal(m) ==
    {[m EXCEPT !.dex_volume = w] : w \in NextAbove(DexVolumeInputs, m.dex_volume)}
    \cup {[m EXCEPT !.dex_trades = w] : w \in NextAbove(DexTradesInputs, m.dex_trades)}
    \cup {[m EXCEPT !.whale_sell_total = w] :
              w \in NextAbove(WhaleSellInputs, m.whale_sell_total)}
    \cup {[m EXCEPT !.whale_count_selling = w] :
              w \in NextAbove(WhaleCountInputs, m.whale_count_selling)}
    \cup {[m EXCEPT !.cex_net_inflow = w] :
              w \in NextAbove(CexInflowInputs, m.cex_net_inflow)}

\* C14: for a fixed poolLiquidity >= 1, raising one of dexVolume, dexTrades,
\* whaleSellTotal, whaleCountSelling, cexNetInflow while the others stay
\* equal never lowers the level compute_risk_level returns, and the level
\* returned is always one of 0, 1, 2, 3.
C14_LevelNonDecreasingInEachSignal ==
    (Returned("compute_risk_level") /\ metrics.pool_liquidity >= 1) =>
        /\ risk_level.raised = "" /\ risk_level.level \in 0..3
        /\ \A m2 \in RaisedInOneSignal(metrics) :
              compute_risk_level(m2).level >= risk_level.level

\* a bundle at level 2 whose level rises when dexVolume alone is raised
C14_Witness ==
    /\ Returned("compute_risk_level") /\ metrics.pool_liquidity >= 1
    /\ risk_level = [raised |-> "", level |-> 2]
    /\ \E m2 \in RaisedInOneSignal(metrics) :
          /\ m2.dex_volume > metrics.dex_volume
          /\ compute_risk_level(m2).level = 3

=============================================================================
